---- MODULE Spec2Model ----
(***************************************************************************)
(* Batch image pipeline: retrieval and recovery (download_images.py),      *)
(* submission (submit_image_batch.py) and job report (check_jobs.py).      *)
(*                                                                         *)
(* File names, correlation keys and job labels are sequences of one-       *)
(* character strings, so that prefix tests, extension splitting and suffix *)
(* insertion are computed as the code computes them.                       *)
(*                                                                         *)
(* Environment assumptions: the process may be killed between any two      *)
(* steps; the network transfer, the creation of the temp file, the write   *)
(* of the marker, the creation of the output directory and the read of the *)
(* downloaded document may fail; unlinking or reading a file this program  *)
(* created succeeds when the file exists.                                  *)
(***************************************************************************)
EXTENDS Integers, Sequences, FiniteSets, TLC

\* ---------------------------------------------------------------- bounds
MaxLines == 2       \* lines read from one downloaded document
MaxCands == 2       \* candidates in one response record
MaxChunks == 2      \* chunks written by one streaming transfer
MaxTmp == 2         \* distinct temp-file names the system hands out
MaxKeyIndex == 11   \* largest line index for which a synthesized key is computed
MaxFiles == 2       \* entries of input_images/ when submit_batch scans it
MaxPolls == 2       \* polls of one upload that are counted
MaxObserved == 2    \* jobs the remote service lists to check_jobs

\* ------------------------------------------------------- program constants
PROGRESS_INTERVAL == 200
SavedAlwaysPrinted == 10
max_workers == 10
HISTORY_SHOWN == 5
STREAM_CHUNK_SIZE == 1048576

\* --------------------------------------------------------------- strings
UNKNOWN_PREFIX == <<"u","n","k","n","o","w","n","_">>
UNPROCESSED_DIR == <<"u","n","p","r","o","c","e","s","s","e","d","/">>
CandSuffix == <<"_","c">>
Key_a_png == <<"a",".","p","n","g">>
Key_unknown_b_png == <<"u","n","k","n","o","w","n","_","b",".","p","n","g">>
Key_c_v2_jpg == <<"c",".","v","2",".","j","p","g">>

Digit == <<"0","1","2","3","4","5","6","7","8","9">>

\* str(n) of a non-negative integer, as the f-strings format it
RECURSIVE Dec(_)
Dec(n) == IF n < 10 THEN <<Digit[n + 1]>> ELSE Dec(n \div 10) \o <<Digit[(n % 10) + 1]>>

StartsWith(s, p) == Len(s) >= Len(p) /\ SubSeq(s, 1, Len(p)) = p

EndsWith(s, p) == Len(s) >= Len(p) /\ SubSeq(s, Len(s) - Len(p) + 1, Len(s)) = p

SetMax(S) == CHOOSE x \in S : \A y \in S : y <= x

SetMin(S) == CHOOSE x \in S : \A y \in S : x <= y

\* str.rfind of a single character: 1-based index of the last occurrence, 0 if none
RFind(s, c) == LET I == {i \in DOMAIN s : s[i] = c} IN IF I = {} THEN 0 ELSE SetMax(I)

\* os.path.splitext: the extension starts at the last dot of the last path
\* component, unless only dots precede it in that component
SplitExt(p) ==
    LET sepIndex == RFind(p, "/")
        dotIndex == RFind(p, ".")
    IN  IF dotIndex > sepIndex /\ \E k \in (sepIndex + 1)..(dotIndex - 1) : p[k] # "."
        THEN <<SubSeq(p, 1, dotIndex - 1), SubSeq(p, dotIndex, Len(p))>>
        ELSE <<p, <<>>>>

\* base64.b64decode on the payloads the model uses: "QQ==" and "Qg==" are the
\* encodings of the one-byte images "A" and "B"; "QQ" has incorrect padding
B64Decode(d) ==
    CASE d = "QQ==" -> [ok |-> TRUE, bytes |-> "A"]
      [] d = "Qg==" -> [ok |-> TRUE, bytes |-> "B"]
      [] OTHER -> [ok |-> FALSE, bytes |-> ""]

\* ----------------------------------------------------------- file system
\* A directory tree is a set of <<relative path, content>> pairs, one per path.
FilePaths(d) == {f[1] : f \in d}

IsFile(d, p) == p \in FilePaths(d)

Content(d, p) == (CHOOSE f \in d : f[1] = p)[2]

\* open(path, "wb").write(bytes) / shutil.copy2: create or overwrite
WriteFile(d, p, c) == {f \in d : f[1] # p} \cup {<<p, c>>}

\* --------------------------------------------------------- response records
\* One line of the downloaded document.  A candidate is its content-parts
\* list; a part is [key, data]: key "text" for a part without image payload,
\* "inline_data" or "inlineData" for the two spellings of the payload field.
NoData == "NoData"
TextPart == [key |-> "text", data |-> ""]
InlinePart == [key |-> "inline_data", data |-> "QQ=="]
InlineCamelPart == [key |-> "inlineData", data |-> "Qg=="]
CandNoParts == <<>>
CandText == <<TextPart>>
CandImage == <<InlinePart>>
CandTextImage == <<TextPart, InlineCamelPart>>
CandKinds == {CandNoParts, CandText, CandImage, CandTextImage}
\* a payload with incorrect padding: base64.b64decode raises on it
BadB64Part == [key |-> "inline_data", data |-> "QQ"]
CandBadB64 == <<BadB64Part>>

Keys == {Key_a_png, Key_unknown_b_png, Key_c_v2_jpg}

SeqsUpTo(S, n) == UNION {[1..k -> S] : k \in 0..n}

\* finish_reason of the first candidate: absent, or an integer code
FrAbsent == 0 - 1
BlankLine == [kind |-> "blank", has_id |-> FALSE, id |-> <<>>, err |-> "none", cands |-> <<>>,
              fr |-> FrAbsent, safety |-> FALSE, pf |-> FALSE]
BadJsonLine == [BlankLine EXCEPT !.kind = "badjson"]
\* a line that parses as JSON but not as an object: a list, a number, a string, null
NotObjectLine == [BlankLine EXCEPT !.kind = "notobject"]
\* a JSON object: custom_id (has_id is FALSE when the field is missing), an error
\* entry with or without a message, or a response with its candidates
Item(has_id, id, err, cands) ==
    [kind |-> "item", has_id |-> has_id, id |-> id, err |-> err, cands |-> cands,
     fr |-> FrAbsent, safety |-> FALSE, pf |-> FALSE]
\* the same object with the diagnostic fields of the response: finish_reason and
\* non-empty safety_ratings on its first candidate, non-empty prompt_feedback
WithReason(item, fr, safety, pf) == [item EXCEPT !.fr = fr, !.safety = safety, !.pf = pf]
ItemIds == {<<TRUE, k>> : k \in Keys} \cup {<<FALSE, <<>>>>}
ErrorItems == {Item(i[1], i[2], e, <<>>) : i \in ItemIds, e \in {"msg", "nomsg"}}
ResponseItems == {Item(i[1], i[2], "none", c) : i \in ItemIds, c \in SeqsUpTo(CandKinds, MaxCands)}
Records == {BlankLine, BadJsonLine} \cup ErrorItems \cup ResponseItems

\* the records drawn while the whole run (with kills and several jobs) is explored
RunRecords ==
    { Item(TRUE, Key_a_png, "none", <<CandImage>>), Item(TRUE, Key_c_v2_jpg, "msg", <<>>) }

\* the input root input_images/ as the runs find it
InputTree == {<<Key_a_png, "in_a">>, <<Key_unknown_b_png, "in_b">>}

\* the first inline payload of a parts list (the inner for ... break loop)
FirstInline(parts) ==
    LET I == {i \in DOMAIN parts : parts[i].key \in {"inline_data", "inlineData"}}
    IN  IF I = {} THEN NoData ELSE parts[SetMin(I)].data

\* "if img_data_b64": a payload was found and is not empty
HasImageData(parts) == FirstInline(parts) \notin {NoData, ""}

\* mutant: the key is synthesized from the one-based number of the line
CustomId_OneBased(item, lineIndex) ==
    IF ~item.has_id THEN UNKNOWN_PREFIX \o Dec(lineIndex + 1) ELSE item.id

\* item.get("custom_id", f"unknown_{line_num}")
CustomId(item, lineIndex) == IF ~item.has_id THEN UNKNOWN_PREFIX \o Dec(lineIndex) ELSE item.id

\* mutant: the test reads len(candidates) >= 1, so a single candidate is suffixed too
FinalFilename_AlwaysSuffixed(custom_id, nCands, k) ==
    SplitExt(custom_id)[1] \o CandSuffix \o Dec(k) \o SplitExt(custom_id)[2]

\* f"{name_parts[0]}_c{i+1}{name_parts[1]}" for several candidates, custom_id for one;
\* k is the 1-based position i+1 of the candidate
FinalFilename(custom_id, nCands, k) ==
    IF nCands > 1
    THEN SplitExt(custom_id)[1] \o CandSuffix \o Dec(k) \o SplitExt(custom_id)[2]
    ELSE custom_id

UnprocessedPath(custom_id) == UNPROCESSED_DIR \o custom_id

\* does _copy_failed_to_unprocessed copy anything for this key
CopiesInput(custom_id, inputs) ==
    /\ custom_id # <<>>
    /\ ~StartsWith(custom_id, UNKNOWN_PREFIX)
    /\ IsFile(inputs, custom_id)

\* mutant: the original is moved into the quarantine folder, shutil.move
SourceAfterCopy_Moved(inputs, src_path) == {f \in inputs : f[1] # src_path}

\* the input root after shutil.copy2(src_path, dest_path) (line 92): the source
\* is read and left in place
SourceAfterCopy(inputs, src_path) == inputs

\* _copy_failed_to_unprocessed applied to the parse state st
CopyFailedToUnprocessed(custom_id, inputs, st) ==
    IF CopiesInput(custom_id, inputs)
    THEN [st EXCEPT !.files = WriteFile(@, UnprocessedPath(custom_id), Content(inputs, custom_id)),
                    !.written = @ \cup {UnprocessedPath(custom_id)},
                    !.inputs = SourceAfterCopy(@, custom_id)]
    ELSE st

\* FINISH_REASONS.get(fr, fr), as the f-string prints it
FinishReasonName(fr) ==
    CASE fr = 0 -> "FINISH_REASON_UNSPECIFIED"
      [] fr = 1 -> "STOP"
      [] fr = 2 -> "MAX_TOKENS"
      [] fr = 3 -> "SAFETY"
      [] fr = 4 -> "RECITATION"
      [] fr = 5 -> "OTHER"
      [] OTHER -> ToString(fr)

NO_REASON == <<"no reason in response">>

\* _format_response_reason(response, candidate) as the list it joins with "; ";
\* k = 0 stands for candidate = None, and only the first candidate of a record of
\* the model carries finish_reason and safety_ratings
FormatResponseReason(item, k) ==
    LET fr == IF k = 1 /\ item.fr # 0 THEN item.fr ELSE FrAbsent   \* x.get(..) or x.get(..)
        parts == (IF fr # FrAbsent THEN <<"finish_reason=" \o FinishReasonName(fr)>> ELSE <<>>)
                 \o (IF k = 1 /\ item.safety THEN <<"safety_ratings=[...]">> ELSE <<>>)
                 \o (IF item.pf THEN <<"prompt_feedback={...}">> ELSE <<>>)
    IN  IF parts # <<>> THEN parts ELSE NO_REASON

\* a printed line: its text, the candidate it is about (0 when none), and the
\* reason in parentheses when it has one
LogLine(msg, k) == [msg |-> msg, cand |-> k, reason |-> <<>>]

ReasonLine(msg, k, reason) == [LogLine(msg, k) EXCEPT !.reason = reason]

SavedIsPrinted(n) == n <= SavedAlwaysPrinted \/ n % PROGRESS_INTERVAL = 0

\* one iteration of "for i, candidate in enumerate(candidates)", k = i + 1
CandidateStep(cands, k, custom_id, inputs, st) ==
    LET parts == cands[k]
        data == FirstInline(parts)
        dec == B64Decode(data)
        final == FinalFilename(custom_id, Len(cands), k)
    IN  IF parts = <<>> THEN st
        ELSE IF HasImageData(parts)
        THEN IF ~dec.ok \/ ~st.writable
             THEN [st EXCEPT !.raised = TRUE,
                             !.log = Append(@, LogLine("Error processing item", 0))]
             ELSE [st EXCEPT !.files = WriteFile(@, final, dec.bytes),
                             !.written = @ \cup {final},
                             !.saved = @ + 1,
                             !.log = IF SavedIsPrinted(st.saved + 1)
                                     THEN Append(@, LogLine("Saved", k)) ELSE @]
        ELSE CopyFailedToUnprocessed(custom_id, inputs,
                 [st EXCEPT !.log = Append(@, ReasonLine("No image found in candidate", k,
                                                          FormatResponseReason(st.rec, k)))])

RECURSIVE CandidateLoop(_, _, _, _, _)
CandidateLoop(cands, k, custom_id, inputs, st) ==
    IF k > Len(cands) \/ st.raised THEN st
    ELSE CandidateLoop(cands, k + 1, custom_id, inputs,
                       CandidateStep(cands, k, custom_id, inputs, st))

\* the body of the per-line try block for a line that parsed as a JSON object
ProcessItem(item, lineIndex, inputs, st) ==
    LET custom_id == CustomId(item, lineIndex)
    IN  IF item.err = "nomsg"
        THEN [st EXCEPT !.raised = TRUE, !.log = Append(@, LogLine("Error processing item", 0))]
        ELSE IF item.err = "msg"
        THEN CopyFailedToUnprocessed(custom_id, inputs,
                 [st EXCEPT !.log = Append(@, LogLine("Error for", 0))])
        ELSE IF item.cands = <<>>
        THEN CopyFailedToUnprocessed(custom_id, inputs,
                 [st EXCEPT !.log = Append(@, ReasonLine("No candidates returned", 0,
                                                          FormatResponseReason(item, 0)))])
        ELSE IF item.cands[1] = <<>>
        THEN CopyFailedToUnprocessed(custom_id, inputs,
                 [st EXCEPT !.log = Append(@, ReasonLine("No content parts", 0,
                                                          FormatResponseReason(item, 1)))])
        ELSE CandidateLoop(item.cands, 1, custom_id, inputs, st)

\* one iteration of "for line_num, line in enumerate(f)"
\* mutant: the handler of json.JSONDecodeError is missing, the error leaves the loop
ProcessLine_JsonErrorUncaught(rec, lineIndex, inputs, st) ==
    CASE rec.kind = "blank" -> st
      [] rec.kind = "badjson" -> [st EXCEPT !.raised = TRUE, !.aborted = TRUE]
      [] rec.kind = "notobject" ->
            IF st.bound
            THEN [st EXCEPT !.raised = TRUE, !.log = Append(@, LogLine("Error processing item", 0))]
            ELSE [st EXCEPT !.raised = TRUE, !.aborted = TRUE]
      [] OTHER -> ProcessItem(rec, lineIndex, inputs, [st EXCEPT !.bound = TRUE])

\* st.bound tells whether the local custom_id has been assigned in this call of
\* download_images; the handler of line 356 reads it, and when it is not bound
\* the handler raises itself and the loop over the lines is left (st.aborted)
ProcessLine(rec, lineIndex, inputs, st) ==
    CASE rec.kind = "blank" -> st
      [] rec.kind = "badjson" -> [st EXCEPT !.log = Append(@, LogLine("Failed to parse JSON line.", 0))]
      [] rec.kind = "notobject" ->
            IF st.bound
            THEN [st EXCEPT !.raised = TRUE, !.log = Append(@, LogLine("Error processing item", 0))]
            ELSE [st EXCEPT !.raised = TRUE, !.aborted = TRUE]
      [] OTHER -> ProcessItem(rec, lineIndex, inputs, [st EXCEPT !.bound = TRUE])

\* ------------------------------------------------------------------ jobs
NoName == <<>>
NoDest == "NoDest"
JOB_STATE_SUCCEEDED == "JOB_STATE_SUCCEEDED"
AUTO_PREFIX == <<"i","m","a","g","e","_","e","n","h","a","n","c","e","_">>
JOB_PREFIX == <<"j","o","b","_">>

\* client.batches.list(): the jobs the remote service reports
Jobs ==
    << [name |-> <<"b","a","t","c","h","e","s","/","j","1">>,
        display_name |-> AUTO_PREFIX \o <<"2","0","2","6","0","1","0","1","_","1","2","0","0","0","0">>,
        state |-> JOB_STATE_SUCCEEDED, dest |-> "files/r1"],
       [name |-> <<"b","a","t","c","h","e","s","/","j","2">>,
        display_name |-> <<"m","y"," ","j","o","b">>,
        state |-> JOB_STATE_SUCCEEDED, dest |-> "files/r2"],
       [name |-> <<"b","a","t","c","h","e","s","/","j","3">>,
        display_name |-> NoName,
        state |-> "JOB_STATE_RUNNING", dest |-> NoDest],
       [name |-> <<"b","a","t","c","h","e","s","/","j","4">>,
        display_name |-> NoName,
        state |-> JOB_STATE_SUCCEEDED, dest |-> NoDest],
       [name |-> <<"b","a","t","c","h","e","s","/","j","5">>,
        display_name |-> <<"o","l","d"," ","j","o","b">>,
        state |-> "JOB_STATE_FAILED", dest |-> NoDest],
       [name |-> <<"b","a","t","c","h","e","s","/","j","6">>,
        display_name |-> <<"m","y","_","j","o","b">>,
        state |-> JOB_STATE_SUCCEEDED, dest |-> "files/r6"] >>

\* what the operator types at the prompt, after strip(): nothing; the short id, the
\* display name or the full id of a succeeded job; the short id of the running
\* job; the display name or the full id of the failed job
Targets ==
    { <<>>, <<"j","1">>, <<"m","y"," ","j","o","b">>, <<"b","a","t","c","h","e","s","/","j","4">>,
      <<"j","3">>, <<"o","l","d"," ","j","o","b">>, <<"b","a","t","c","h","e","s","/","j","5">> }

Letters ==
    {"a","b","c","d","e","f","g","h","i","j","k","l","m","n","o","p","q","r","s","t","u","v","w","x","y","z",
     "A","B","C","D","E","F","G","H","I","J","K","L","M","N","O","P","Q","R","S","T","U","V","W","X","Y","Z"}

IsAlnum(c) == c \in Letters \/ c \in {Digit[i] : i \in DOMAIN Digit}

KeptInFolderName(c) == IsAlnum(c) \/ c \in {" ", ".", "_", "-"}

\* str.strip() on a string whose only white space is the space character
RECURSIVE Strip(_)
Strip(s) ==
    IF s = <<>> THEN s
    ELSE IF Head(s) = " " THEN Strip(Tail(s))
    ELSE IF s[Len(s)] = " " THEN Strip(SubSeq(s, 1, Len(s) - 1))
    ELSE s

\* "".join(c for c in folder_name if ...).strip().replace(' ', '_')
Sanitize(s) ==
    LET t == Strip(SelectSeq(s, KeptInFolderName))
    IN  [i \in DOMAIN t |-> IF t[i] = " " THEN "_" ELSE t[i]]

\* the last component of the job's resource name: job.name.split('/')[-1]
LastComponent(s) == SubSeq(s, RFind(s, "/") + 1, Len(s))

\* hasattr(job, 'display_name') and job.display_name: None and "" are both <<>>
HasDisplayName(j) == j.display_name # NoName

\* the folder of a job under generated_images/
JobOutputDir(j) ==
    JOB_PREFIX \o Sanitize(IF HasDisplayName(j) /\ ~StartsWith(j.display_name, AUTO_PREFIX)
                           THEN j.display_name
                           ELSE LastComponent(j.name))

DirNames == {JobOutputDir(Jobs[i]) : i \in DOMAIN Jobs}

\* the selection of the jobs to process: the operator's filter, then the state
MatchesTarget(j, target) ==
    \/ j.name = target
    \/ EndsWith(j.name, <<"/">> \o target)
    \/ (HasDisplayName(j) /\ target = j.display_name)

\* mutant: the state is tested only when every job is scanned
Selected_NamedJobAnyState(j, target) ==
    IF target = <<>> THEN j.state = JOB_STATE_SUCCEEDED ELSE MatchesTarget(j, target)

Selected(j, target) ==
    /\ j.state = JOB_STATE_SUCCEEDED
    /\ (target = <<>> \/ MatchesTarget(j, target))

CompletedJobs(target) == SelectSeq([i \in DOMAIN Jobs |-> i], LAMBDA i : Selected(Jobs[i], target))

\* ------------------------------------------------------------- skip rule
Lower(c) ==
    LET up == <<"A","B","C","D","E","F","G","H","I","J","K","L","M","N","O","P","Q","R","S","T","U","V","W","X","Y","Z">>
        lo == <<"a","b","c","d","e","f","g","h","i","j","k","l","m","n","o","p","q","r","s","t","u","v","w","x","y","z">>
        I == {i \in DOMAIN up : up[i] = c}
    IN  IF I = {} THEN c ELSE lo[CHOOSE i \in I : TRUE]

LowerStr(s) == [i \in DOMAIN s |-> Lower(s[i])]

SkipExtensions == { <<".","j","p","g">>, <<".","p","n","g">>, <<".","j","p","e","g">> }

\* the first component of a relative path: the entry os.listdir reports for it
FirstComponent(p) ==
    LET I == {i \in DOMAIN p : p[i] = "/"}
    IN  IF I = {} THEN p ELSE SubSeq(p, 1, SetMin(I) - 1)

ListDir(d) == {FirstComponent(p) : p \in FilePaths(d)}

\* existing_files: the entries of the job folder that end like an image
ExistingFiles(d) == {f \in ListDir(d) : \E e \in SkipExtensions : EndsWith(LowerStr(f), e)}

\* ------------------------------------------------------------------ state
VARIABLES
    pc,             \* position of the process in download_images; "idle", "done" or "killed" when none runs
    marker,         \* the marker file .download_images_temp: Absent or [content, stale]
    tmpFiles,       \* the temp directory: name -> NoFile or [exists, stale]; the bytes of a
                    \* temp file are counted in total_bytes while it is written, and
                    \* never read once it is left behind
    total_bytes,    \* chunks written to the temp file of the job being processed
    tmp_path,       \* local tmp_path (None before the temp file of the job is created)
    prev_path,      \* local prev_path of _check_clean_previous_temp
    dirs,           \* generated_images/: folder name -> NoDir or the tree of the folder
    inputFiles,     \* the tree of input_images/
    completed_jobs, \* local completed_jobs, as indexes into Jobs
    jobIdx,         \* position of the for loop in completed_jobs
    line_num,       \* number of lines consumed from the open document (0 when none is open)
    saved_count,    \* local saved_count
    log,            \* the lines printed by the latest step that prints
    attempts,       \* history: calls of _stream_download_to_file per job in this run
    outcome,        \* history: what has happened to the job being processed
    startNamed,     \* history: content of the marker when this run started
    startExisted,   \* history: whether the file the marker named existed then
    lastRec,        \* history: the line processed last, while the document is open
    written,        \* history: the paths that line created or overwrote in the job folder
    custom_id_bound,\* whether the local custom_id has been assigned in this run
    bad_json_lines, \* history: indexes of the lines of the open document that were not
                    \* parsable as JSON
    aborted_by,     \* history: the line at which, in this run, the loop over the lines of
                    \* a document was left by an exception (BlankLine when none was)
    target_input,   \* local target_input: what the operator typed at the prompt, stripped
    in_memory,      \* what the process holds of the result document: the bytes of the
                    \* local chunk, and the indexes of the lines bound to a local
    \* ---- submit_batch (submit_image_batch.py)
    sb_pc,          \* position of the main thread of submit_batch
    user_job_name,  \* what the operator typed as the name of the job, stripped
    input_dir,      \* os.listdir(input_dir): the names in input_images/
    image_files,    \* local image_files
    plan,           \* environment: what the remote service does with the upload of a file
    upload,         \* per file: position of its upload_single_file task, the state of
                    \* its file_obj, the polls made, the result returned
    consumed,       \* the futures the as_completed loop has handled
    completed_count,\* local completed_count
    uploaded_files, \* local uploaded_files, in insertion order
    jsonl,          \* batch_input_images.jsonl: its lines when it has been written
    job,            \* the batch job created at the remote service, and the folder in
                    \* which its details were saved
    \* ---- check_jobs (check_jobs.py)
    cj_pc,          \* position in check_jobs
    jobs,           \* local jobs: what client.batches.list() returned
    active_jobs,    \* local active_jobs, as indexes into jobs
    history_jobs,   \* local completed_jobs of check_jobs, as indexes into jobs
    shown           \* the completed jobs printed, in the order printed

vars == <<pc, marker, tmpFiles, total_bytes, tmp_path, prev_path, dirs, inputFiles, completed_jobs, jobIdx,
          line_num, saved_count, log, attempts, outcome, startNamed, startExisted, lastRec, written,
          custom_id_bound, bad_json_lines, aborted_by, in_memory, target_input,
          sb_pc, user_job_name, input_dir, image_files, plan, upload, consumed, completed_count, uploaded_files, jsonl, job,
          cj_pc, jobs, active_jobs, history_jobs, shown>>

vars_download == <<pc, marker, tmpFiles, total_bytes, tmp_path, prev_path, dirs, inputFiles, completed_jobs,
                   jobIdx, line_num, saved_count, log, attempts, outcome, startNamed, startExisted,
                   lastRec, written, custom_id_bound, bad_json_lines, aborted_by, in_memory,
                   target_input>>
submitVars == <<sb_pc, user_job_name, input_dir, image_files, plan, upload, consumed, completed_count, uploaded_files, jsonl, job>>
checkVars == <<cj_pc, jobs, active_jobs, history_jobs, shown>>

\* temp-file names are 1..MaxTmp; 0 stands for the empty string in the marker and
\* in prev_path, and for None in tmp_path
Empty == 0
None == 0
Absent == [exists |-> FALSE, content |-> Empty, stale |-> FALSE]
NoFile == [exists |-> FALSE, stale |-> FALSE]
NoDir == [exists |-> FALSE, tree |-> {}]
NoMarker == 0 - 1
TmpNames == 1..MaxTmp
NotRunning == {"idle", "done", "killed"}
RecoveryPcs == {"rec_check", "rec_unlink_marker", "rec_unlink_tmp"}

SUBMISSION_DETAILS == <<"s","u","b","m","i","s","s","i","o","n","_","d","e","t","a","i","l","s",".","j","s","o","n">>

\* generated_images/ before the first run: the folder the submitter made for the named job
InitialDirs ==
    [d \in DirNames |-> IF d = JobOutputDir(Jobs[2])
                      THEN [exists |-> TRUE, tree |-> {<<SUBMISSION_DETAILS, "details">>}]
                      ELSE NoDir]

NoAttempts == [i \in DOMAIN Jobs |-> 0]

\* nothing of a result document is held
NothingHeld == [chunk |-> 0, lines |-> {}]

\* the lengths resp.read(size) returns before the end of the body (line 114): a
\* short read or a full chunk
ReadSizes(size) == {1, size}

\* mutant: the lines are collected in a list before they are processed
HeldLines_Collected(held, lineIndex) == held \cup {lineIndex}

\* line 240: the loop variable is bound to the line just read, the line before
\* it is released
HeldLines(held, lineIndex) == {lineIndex}

\* the locals of a process that is not running
LocalsCleared ==
    /\ tmp_path' = None
    /\ total_bytes' = 0
    /\ prev_path' = Empty
    /\ completed_jobs' = <<>>
    /\ jobIdx' = 0
    /\ line_num' = 0
    /\ saved_count' = 0
    /\ log' = <<>>
    /\ attempts' = NoAttempts
    /\ outcome' = "none"
    /\ startNamed' = NoMarker
    /\ startExisted' = FALSE
    /\ lastRec' = BlankLine
    /\ written' = {}
    /\ custom_id_bound' = FALSE
    /\ bad_json_lines' = {}
    /\ aborted_by' = BlankLine
    /\ in_memory' = NothingHeld

NoJsonl == [exists |-> FALSE, lines |-> <<>>]
NoJob == [created |-> FALSE, display_name |-> <<>>, job_dir |-> <<>>]

\* submit_batch is not running
SubmitIdle ==
    /\ sb_pc = "idle"
    /\ user_job_name = <<>>
    /\ input_dir = {}
    /\ image_files = {}
    /\ plan = <<>>
    /\ upload = <<>>
    /\ consumed = {}
    /\ completed_count = 0
    /\ uploaded_files = <<>>
    /\ jsonl = NoJsonl
    /\ job = NoJob

\* check_jobs is not running
CheckIdle ==
    /\ cj_pc = "idle"
    /\ jobs = <<>>
    /\ active_jobs = <<>>
    /\ history_jobs = <<>>
    /\ shown = <<>>

DownloadInit ==
    /\ pc = "idle"
    /\ marker = Absent
    /\ tmpFiles = [p \in TmpNames |-> NoFile]
    /\ tmp_path = None
    /\ total_bytes = 0
    /\ prev_path = Empty
    /\ dirs = InitialDirs
    /\ inputFiles = InputTree
    /\ completed_jobs = <<>>
    /\ jobIdx = 0
    /\ line_num = 0
    /\ saved_count = 0
    /\ log = <<>>
    /\ attempts = NoAttempts
    /\ outcome = "none"
    /\ startNamed = NoMarker
    /\ startExisted = FALSE
    /\ lastRec = BlankLine
    /\ written = {}
    /\ custom_id_bound = FALSE
    /\ bad_json_lines = {}
    /\ aborted_by = BlankLine
    /\ in_memory = NothingHeld
    /\ target_input = <<>>

Init == DownloadInit /\ SubmitIdle /\ CheckIdle

CurJob == Jobs[completed_jobs[jobIdx]]
CurDir == JobOutputDir(CurJob)

\* os.unlink of a temp file
Unlinked(files, p) == [files EXCEPT ![p] = NoFile]

\* a process starts: everything on disk is now left by an earlier run
Start ==
    /\ pc \in NotRunning
    /\ pc' = "rec_check"
    /\ tmpFiles' = [p \in TmpNames |-> IF tmpFiles[p] = NoFile THEN NoFile
                                       ELSE [tmpFiles[p] EXCEPT !.stale = TRUE]]
    /\ marker' = IF marker = Absent THEN Absent ELSE [marker EXCEPT !.stale = TRUE]
    /\ startNamed' = IF marker = Absent THEN NoMarker ELSE marker.content
    /\ startExisted' = (marker # Absent /\ marker.content \in TmpNames
                        /\ tmpFiles[marker.content] # NoFile)
    /\ tmp_path' = None
    /\ total_bytes' = 0
    /\ prev_path' = Empty
    /\ completed_jobs' = <<>>
    /\ jobIdx' = 0
    /\ line_num' = 0
    /\ saved_count' = 0
    /\ log' = <<>>
    /\ attempts' = NoAttempts
    /\ outcome' = "none"
    /\ lastRec' = BlankLine
    /\ written' = {}
    /\ custom_id_bound' = FALSE
    /\ bad_json_lines' = {}
    /\ aborted_by' = BlankLine
    /\ in_memory' = NothingHeld
    /\ UNCHANGED <<dirs, inputFiles>>
    /\ target_input' = <<>>
    /\ UNCHANGED <<submitVars, checkVars>>

\* external termination of the process, at any point
Kill ==
    /\ pc \notin NotRunning
    /\ pc' = "killed"
    /\ LocalsCleared
    /\ UNCHANGED <<marker, tmpFiles, dirs, inputFiles>>
    /\ target_input' = <<>>
    /\ UNCHANGED <<submitVars, checkVars>>

\* _check_clean_previous_temp, lines 26-32: test for the marker and read it
RecoverCheck ==
    /\ pc = "rec_check"
    /\ IF marker = Absent
       THEN pc' = "list" /\ UNCHANGED prev_path
       ELSE pc' = "rec_unlink_marker" /\ prev_path' = marker.content
    /\ UNCHANGED <<marker, tmpFiles, tmp_path, dirs, inputFiles, completed_jobs, jobIdx, line_num,
                   total_bytes, saved_count, log, attempts, outcome, startNamed, startExisted, lastRec, written,
                   custom_id_bound, bad_json_lines, aborted_by, in_memory>>
    /\ UNCHANGED <<target_input, submitVars, checkVars>>

\* lines 33-38: unlink the marker, return if it named nothing
RecoverUnlinkMarker ==
    /\ pc = "rec_unlink_marker"
    /\ marker' = Absent
    /\ pc' = IF prev_path = Empty THEN "list" ELSE "rec_unlink_tmp"
    /\ UNCHANGED <<tmpFiles, tmp_path, prev_path, dirs, inputFiles, completed_jobs, jobIdx, line_num,
                   total_bytes, saved_count, log, attempts, outcome, startNamed, startExisted, lastRec, written,
                   custom_id_bound, bad_json_lines, aborted_by, in_memory>>
    /\ UNCHANGED <<target_input, submitVars, checkVars>>

\* mutant: the leftover file is reported but not unlinked
RecoveredTmpFiles_NoUnlink(files, prev) == files

\* the temp directory after lines 39-46
RecoveredTmpFiles(files, prev) == IF files[prev] # NoFile THEN Unlinked(files, prev) ELSE files

\* lines 39-46: remove the file the marker named, if it is still there
RecoverUnlinkTmp ==
    /\ pc = "rec_unlink_tmp"
    /\ tmpFiles' = RecoveredTmpFiles(tmpFiles, prev_path)
    /\ log' = IF tmpFiles[prev_path] # NoFile
              THEN <<LogLine("Removed leftover temp file from previous run", 0)>>
              ELSE <<LogLine("Previous run's temp file was already deleted (clean exit).", 0)>>
    /\ pc' = "list"
    /\ UNCHANGED <<marker, tmp_path, prev_path, dirs, inputFiles, completed_jobs, jobIdx, line_num,
                   total_bytes, saved_count, attempts, outcome, startNamed, startExisted, lastRec, written,
                   custom_id_bound, bad_json_lines, aborted_by, in_memory>>
    /\ UNCHANGED <<target_input, submitVars, checkVars>>

recVars == <<prev_path, startNamed, startExisted>>
parseVars == <<total_bytes, line_num, saved_count, lastRec, written, custom_id_bound, bad_json_lines, aborted_by,
               in_memory>>

\* lines 142-175: list the jobs, ask for the filter, select the succeeded jobs
ListJobs ==
    /\ pc = "list"
    /\ \E target \in Targets :
          /\ target_input' = target
          /\ completed_jobs' = CompletedJobs(target)
          /\ IF CompletedJobs(target) = <<>>
             THEN pc' = "done" /\ jobIdx' = 0
             ELSE pc' = "job" /\ jobIdx' = 1
    /\ log' = <<>>
    /\ UNCHANGED <<marker, tmpFiles, tmp_path, dirs, inputFiles, attempts, outcome>>
    /\ UNCHANGED <<recVars, parseVars>>
    /\ UNCHANGED <<submitVars, checkVars>>

\* client.batches.list() raises: the handler of line 381 reports and the run ends
ListJobsFails ==
    /\ pc = "list"
    /\ pc' = "done"
    /\ log' = <<LogLine("An error occurred", 0)>>
    /\ UNCHANGED <<marker, tmpFiles, tmp_path, dirs, inputFiles, completed_jobs, jobIdx, attempts, outcome>>
    /\ UNCHANGED <<recVars, parseVars>>
    /\ UNCHANGED <<target_input, submitVars, checkVars>>

\* the for loop moves to the next job, or the function returns
AdvanceJob ==
    IF jobIdx < Len(completed_jobs)
    THEN pc' = "job" /\ jobIdx' = jobIdx + 1
    ELSE pc' = "done" /\ jobIdx' = jobIdx

\* mutant: the skip test is never taken
AlreadyProcessed_Never(d) == FALSE

\* lines 196-202: the job folder exists and lists at least one image
AlreadyProcessed(d) == d.exists /\ ExistingFiles(d.tree) # {}

\* lines 177-212: folder name, skip rule, makedirs, test for the result file
JobBegin ==
    /\ pc = "job"
    /\ IF AlreadyProcessed(dirs[CurDir])
       THEN /\ outcome' = "skipped"
            /\ log' = <<LogLine("Skipping: Output folder already exists", 0)>>
            /\ AdvanceJob
            /\ UNCHANGED dirs
       ELSE /\ dirs' = [dirs EXCEPT ![CurDir].exists = TRUE]
            /\ IF CurJob.dest = NoDest
               THEN /\ outcome' = "no_output_file"
                    /\ log' = <<LogLine("No output file found.", 0)>>
                    /\ AdvanceJob
               ELSE /\ outcome' = "none"
                    /\ log' = <<LogLine("Downloading results", 0)>>
                    /\ pc' = "mktemp"
                    /\ UNCHANGED jobIdx
    /\ tmp_path' = None
    /\ UNCHANGED <<marker, tmpFiles, inputFiles, completed_jobs, attempts>>
    /\ UNCHANGED <<recVars, parseVars>>
    /\ UNCHANGED <<target_input, submitVars, checkVars>>

\* line 206 raises (the folder cannot be created): the handler of line 381 ends the run
JobMakedirsFails ==
    /\ pc = "job"
    /\ ~AlreadyProcessed(dirs[CurDir])
    /\ ~dirs[CurDir].exists
    /\ pc' = "done"
    /\ outcome' = "makedirs_failed"
    /\ log' = <<LogLine("An error occurred", 0)>>
    /\ UNCHANGED <<marker, tmpFiles, tmp_path, dirs, inputFiles, completed_jobs, jobIdx, attempts>>
    /\ UNCHANGED <<recVars, parseVars>>
    /\ UNCHANGED <<target_input, submitVars, checkVars>>

\* mutant: the transfer starts without the marker being written
PcAfterMkTemp_SkipMarker == "stream_open"

\* lines 220-222: once the temp file exists, the marker is written next
PcAfterMkTemp == "open_marker"

\* lines 216-219: NamedTemporaryFile(delete=False) creates a file under a name not in use
MkTemp ==
    /\ pc = "mktemp"
    /\ \E p \in TmpNames :
          /\ tmpFiles[p] = NoFile
          /\ tmpFiles' = [tmpFiles EXCEPT ![p] = [exists |-> TRUE, stale |-> FALSE]]
          /\ tmp_path' = p
    /\ pc' = PcAfterMkTemp
    /\ UNCHANGED <<marker, dirs, inputFiles, completed_jobs, jobIdx, log, attempts, outcome>>
    /\ UNCHANGED <<recVars, parseVars>>
    /\ UNCHANGED <<target_input, submitVars, checkVars>>

\* NamedTemporaryFile raises: tmp_path stays None
MkTempFails ==
    /\ pc = "mktemp"
    /\ pc' = "outer_except"
    /\ outcome' = "mktemp_failed"
    /\ UNCHANGED <<marker, tmpFiles, tmp_path, dirs, inputFiles, completed_jobs, jobIdx, log, attempts>>
    /\ UNCHANGED <<recVars, parseVars>>
    /\ UNCHANGED <<target_input, submitVars, checkVars>>

\* line 221: open(_TEMP_MARKER, "w") creates or truncates the marker
OpenMarker ==
    /\ pc = "open_marker"
    /\ marker' = [exists |-> TRUE, content |-> Empty, stale |-> FALSE]
    /\ pc' = "write_marker"
    /\ UNCHANGED <<tmpFiles, tmp_path, dirs, inputFiles, completed_jobs, jobIdx, log, attempts, outcome>>
    /\ UNCHANGED <<recVars, parseVars>>
    /\ UNCHANGED <<target_input, submitVars, checkVars>>

\* what line 222 puts into the marker
MarkerContent(path) == path

\* line 222: the path is written and the marker closed
WriteMarker ==
    /\ pc = "write_marker"
    /\ marker' = [exists |-> TRUE, content |-> MarkerContent(tmp_path), stale |-> FALSE]
    /\ pc' = "stream_open"
    /\ UNCHANGED <<tmpFiles, tmp_path, dirs, inputFiles, completed_jobs, jobIdx, log, attempts, outcome>>
    /\ UNCHANGED <<recVars, parseVars>>
    /\ UNCHANGED <<target_input, submitVars, checkVars>>

\* line 221 or 222 raises: the handler of line 226 runs
MarkerFails ==
    /\ pc \in {"open_marker", "write_marker"}
    /\ pc' = "except_unlink_tmp"
    /\ outcome' = "marker_failed"
    /\ UNCHANGED <<marker, tmpFiles, tmp_path, dirs, inputFiles, completed_jobs, jobIdx, log, attempts>>
    /\ UNCHANGED <<recVars, parseVars>>
    /\ UNCHANGED <<target_input, submitVars, checkVars>>

Attempted == [attempts EXCEPT ![completed_jobs[jobIdx]] = @ + 1]

\* _stream_download_to_file, lines 100-112: the request is answered with status 200
\* and the temp file is opened for writing
StreamOpen ==
    /\ pc = "stream_open"
    /\ attempts' = Attempted
    /\ total_bytes' = 0
    /\ pc' = "stream"
    /\ UNCHANGED <<marker, tmpFiles, tmp_path, dirs, inputFiles, completed_jobs, jobIdx, log, outcome>>
    /\ UNCHANGED <<recVars, line_num, saved_count, lastRec, written, custom_id_bound, bad_json_lines, aborted_by, in_memory>>
    /\ UNCHANGED <<target_input, submitVars, checkVars>>

\* lines 106-108, 125-128: HTTPError, URLError or a status other than 200
StreamOpenFails ==
    /\ pc = "stream_open"
    /\ attempts' = Attempted
    /\ outcome' = "download_failed"
    /\ pc' = "except_unlink_tmp"
    /\ UNCHANGED <<marker, tmpFiles, tmp_path, dirs, inputFiles, completed_jobs, jobIdx, log>>
    /\ UNCHANGED <<recVars, parseVars>>
    /\ UNCHANGED <<target_input, submitVars, checkVars>>

\* lines 113-117: one chunk is read and written
StreamChunk ==
    /\ pc = "stream"
    /\ total_bytes < MaxChunks
    /\ total_bytes' = total_bytes + 1
    /\ \E n \in ReadSizes(STREAM_CHUNK_SIZE) : in_memory' = [in_memory EXCEPT !.chunk = n]
    /\ UNCHANGED <<pc, marker, tmpFiles, tmp_path, dirs, inputFiles, completed_jobs, jobIdx, log, attempts, outcome>>
    /\ UNCHANGED <<recVars, line_num, saved_count, lastRec, written, custom_id_bound, bad_json_lines, aborted_by>>
    /\ UNCHANGED <<target_input, submitVars, checkVars>>

\* resp.read raises in the middle of the transfer
StreamReadFails ==
    /\ pc = "stream"
    /\ outcome' = "download_failed"
    /\ pc' = "except_unlink_tmp"
    /\ in_memory' = NothingHeld
    /\ UNCHANGED <<marker, tmpFiles, tmp_path, dirs, inputFiles, completed_jobs, jobIdx, log, attempts>>
    /\ UNCHANGED <<recVars, total_bytes, line_num, saved_count, lastRec, written, custom_id_bound,
                   bad_json_lines, aborted_by>>
    /\ UNCHANGED <<target_input, submitVars, checkVars>>

\* lines 115-116, 237: the empty chunk ends the transfer; saved_count = 0
StreamEnd ==
    /\ pc = "stream"
    /\ pc' = "parse"
    /\ saved_count' = 0
    /\ line_num' = 0
    /\ in_memory' = NothingHeld
    /\ UNCHANGED <<marker, tmpFiles, total_bytes, tmp_path, dirs, inputFiles, completed_jobs, jobIdx,
                   log, attempts, outcome, lastRec, written, custom_id_bound, bad_json_lines, aborted_by>>
    /\ UNCHANGED recVars
    /\ UNCHANGED <<target_input, submitVars, checkVars>>

\* mutant: the handler of line 226 does not unlink the temp file
ExceptTmpFiles_NoUnlink(files, path) == files

\* the temp directory after lines 227-230
ExceptTmpFiles(files, path) == Unlinked(files, path)

\* lines 227-230 of the handler of line 226
ExceptUnlinkTmp ==
    /\ pc = "except_unlink_tmp"
    /\ tmpFiles' = ExceptTmpFiles(tmpFiles, tmp_path)
    /\ pc' = "except_unlink_marker"
    /\ UNCHANGED <<marker, tmp_path, dirs, inputFiles, completed_jobs, jobIdx, log, attempts, outcome>>
    /\ UNCHANGED <<recVars, parseVars>>
    /\ UNCHANGED <<target_input, submitVars, checkVars>>

\* lines 231-235: the marker is unlinked and the exception raised again
ExceptUnlinkMarker ==
    /\ pc = "except_unlink_marker"
    /\ marker' = Absent
    /\ pc' = "outer_except"
    /\ UNCHANGED <<tmpFiles, tmp_path, dirs, inputFiles, completed_jobs, jobIdx, log, attempts, outcome>>
    /\ UNCHANGED <<recVars, parseVars>>
    /\ UNCHANGED <<target_input, submitVars, checkVars>>

\* the parse state a line starts from
LineStart == [files |-> dirs[CurDir].tree, inputs |-> inputFiles, log |-> <<>>, saved |-> saved_count,
              raised |-> FALSE, written |-> {}, rec |-> BlankLine, writable |-> TRUE,
              bound |-> custom_id_bound, aborted |-> FALSE]

\* the with block of line 239 is left: the document is closed
DocumentClosed ==
    line_num' = 0 /\ lastRec' = BlankLine /\ written' = {} /\ bad_json_lines' = {} /\ in_memory' = NothingHeld

\* lines 240-359: one line of the document is read and processed; writable tells
\* whether the job folder accepts the files the line writes.  When the handler of
\* line 356 raises, the exception leaves the loop and the with block and reaches
\* the handler of line 368
ParseLine(rec, writable) ==
    /\ pc = "parse"
    /\ line_num < MaxLines
    /\ total_bytes > 0
    /\ LET r == ProcessLine(rec, line_num, inputFiles,
                            [LineStart EXCEPT !.rec = rec, !.writable = writable])
       IN  /\ dirs' = [dirs EXCEPT ![CurDir].tree = r.files]
           /\ inputFiles' = r.inputs
           /\ log' = r.log
           /\ saved_count' = r.saved
           /\ custom_id_bound' = r.bound
           /\ IF r.aborted
              THEN /\ pc' = "outer_except"
                   /\ outcome' = "handler_raised"
                   /\ aborted_by' = rec
                   /\ DocumentClosed
              ELSE /\ written' = r.written
                   /\ lastRec' = rec
                   /\ line_num' = line_num + 1
                   /\ in_memory' = [in_memory EXCEPT !.lines = HeldLines(@, line_num)]
                   /\ bad_json_lines' = IF rec.kind = "badjson"
                                        THEN bad_json_lines \cup {line_num} ELSE bad_json_lines
                   /\ UNCHANGED <<pc, outcome, aborted_by>>
    /\ UNCHANGED <<marker, tmpFiles, total_bytes, tmp_path, completed_jobs, jobIdx, attempts>>
    /\ UNCHANGED recVars
    /\ UNCHANGED <<target_input, submitVars, checkVars>>

\* lines 239-240: reading the document raises (it is not valid UTF-8)
ParseReadFails ==
    /\ pc = "parse"
    /\ total_bytes > 0
    /\ outcome' = "read_failed"
    /\ pc' = "outer_except"
    /\ DocumentClosed
    /\ UNCHANGED <<marker, tmpFiles, tmp_path, dirs, inputFiles, completed_jobs, jobIdx, log, attempts>>
    /\ UNCHANGED <<recVars, total_bytes, saved_count, custom_id_bound, aborted_by>>
    /\ UNCHANGED <<target_input, submitVars, checkVars>>

\* the document has no further line
ParseEof ==
    /\ pc = "parse"
    /\ pc' = "unlink_tmp"
    /\ DocumentClosed
    /\ UNCHANGED <<marker, tmpFiles, tmp_path, dirs, inputFiles, completed_jobs, jobIdx, log, attempts, outcome>>
    /\ UNCHANGED <<recVars, total_bytes, saved_count, custom_id_bound, aborted_by>>
    /\ UNCHANGED <<target_input, submitVars, checkVars>>

\* line 361
UnlinkTmp ==
    /\ pc = "unlink_tmp"
    /\ tmpFiles' = Unlinked(tmpFiles, tmp_path)
    /\ pc' = "unlink_marker"
    /\ UNCHANGED <<marker, tmp_path, dirs, inputFiles, completed_jobs, jobIdx, log, attempts, outcome>>
    /\ UNCHANGED <<recVars, parseVars>>
    /\ UNCHANGED <<target_input, submitVars, checkVars>>

\* lines 362-366: the marker is unlinked and the count of saved images reported
UnlinkMarker ==
    /\ pc = "unlink_marker"
    /\ marker' = Absent
    /\ log' = <<LogLine("Done. Total images saved", saved_count)>>
    /\ outcome' = "done"
    /\ pc' = "finally_tmp"
    /\ UNCHANGED <<tmpFiles, tmp_path, dirs, inputFiles, completed_jobs, jobIdx, attempts>>
    /\ UNCHANGED <<recVars, parseVars>>
    /\ UNCHANGED <<target_input, submitVars, checkVars>>

\* lines 368-369: the error of the job is reported
OuterExcept ==
    /\ pc = "outer_except"
    /\ log' = <<LogLine("Error downloading/processing file", 0)>>
    /\ pc' = "finally_tmp"
    /\ UNCHANGED <<marker, tmpFiles, tmp_path, dirs, inputFiles, completed_jobs, jobIdx, attempts, outcome>>
    /\ UNCHANGED <<recVars, parseVars>>
    /\ UNCHANGED <<target_input, submitVars, checkVars>>

\* mutant: the finally block does not unlink the temp file
FinallyTmpFiles_NoUnlink(files, path) == files

\* the temp directory after lines 371-375
FinallyTmpFiles(files, path) == IF path # None THEN Unlinked(files, path) ELSE files

\* lines 370-375
FinallyTmp ==
    /\ pc = "finally_tmp"
    /\ tmpFiles' = FinallyTmpFiles(tmpFiles, tmp_path)
    /\ pc' = "finally_marker"
    /\ UNCHANGED <<marker, tmp_path, dirs, inputFiles, completed_jobs, jobIdx, log, attempts, outcome>>
    /\ UNCHANGED <<recVars, parseVars>>
    /\ UNCHANGED <<target_input, submitVars, checkVars>>

\* lines 376-379, then the next job
FinallyMarker ==
    /\ pc = "finally_marker"
    /\ marker' = Absent
    /\ AdvanceJob
    /\ UNCHANGED <<tmpFiles, tmp_path, dirs, inputFiles, completed_jobs, log, attempts, outcome>>
    /\ UNCHANGED <<recVars, parseVars>>
    /\ UNCHANGED <<target_input, submitVars, checkVars>>

Next ==
    \/ Start
    \/ Kill
    \/ RecoverCheck
    \/ RecoverUnlinkMarker
    \/ RecoverUnlinkTmp
    \/ ListJobs
    \/ ListJobsFails
    \/ JobBegin
    \/ JobMakedirsFails
    \/ MkTemp
    \/ MkTempFails
    \/ OpenMarker
    \/ WriteMarker
    \/ MarkerFails
    \/ StreamOpen
    \/ StreamOpenFails
    \/ StreamChunk
    \/ StreamReadFails
    \/ StreamEnd
    \/ ExceptUnlinkTmp
    \/ ExceptUnlinkMarker
    \/ \E rec \in RunRecords : ParseLine(rec, TRUE)
    \/ ParseReadFails
    \/ ParseEof
    \/ UnlinkTmp
    \/ UnlinkMarker
    \/ OuterExcept
    \/ FinallyTmp
    \/ FinallyMarker

\* repeated runs of download_images, each of which may be killed at any point
Spec == Init /\ [][Next]_vars

\* the state in which the first run, asked for the job named "my job", starts to
\* read the document it has downloaded
ParseStart ==
    /\ pc = "parse"
    /\ marker = [exists |-> TRUE, content |-> 1, stale |-> FALSE]
    /\ tmpFiles = [p \in TmpNames |-> IF p = 1 THEN [exists |-> TRUE, stale |-> FALSE] ELSE NoFile]
    /\ tmp_path = 1
    /\ total_bytes = 1
    /\ prev_path = Empty
    /\ dirs = InitialDirs
    /\ inputFiles = InputTree
    /\ completed_jobs = <<2>>
    /\ jobIdx = 1
    /\ line_num = 0
    /\ saved_count = 0
    /\ log = <<LogLine("Downloading results", 0)>>
    /\ attempts = [NoAttempts EXCEPT ![2] = 1]
    /\ outcome = "none"
    /\ startNamed = NoMarker
    /\ startExisted = FALSE
    /\ lastRec = BlankLine
    /\ written = {}
    /\ custom_id_bound = FALSE
    /\ bad_json_lines = {}
    /\ aborted_by = BlankLine
    /\ in_memory = NothingHeld
    /\ target_input = <<"m","y"," ","j","o","b">>
    /\ SubmitIdle
    /\ CheckIdle

\* the records drawn for the line at a position of the document: every record of
\* the format for the first line, a few for the lines after it
LaterRecords ==
    { BlankLine, BadJsonLine,
      Item(TRUE, Key_a_png, "none", <<CandImage>>),
      Item(FALSE, <<>>, "none", <<CandImage>>),
      Item(TRUE, Key_a_png, "msg", <<>>) }

\* records of a.png without an image, with and without the diagnostic fields
ReasonItems ==
    {WithReason(Item(TRUE, Key_a_png, "none", <<>>), FrAbsent, FALSE, pf) : pf \in BOOLEAN}
    \cup {WithReason(Item(TRUE, Key_a_png, "none", c), fr, sf, pf) :
              c \in {<<CandNoParts>>, <<CandText>>}, fr \in {FrAbsent, 0, 3, 9},
              sf \in BOOLEAN, pf \in BOOLEAN}

LineRecords(lineIndex) == IF lineIndex = 0 THEN Records \cup ReasonItems ELSE LaterRecords

NextParse ==
    \/ \E rec \in LineRecords(line_num) : ParseLine(rec, TRUE)
    \/ ParseEof

\* the parse of one downloaded document, over every record the format allows
SpecParse == ParseStart /\ [][NextParse]_vars

\* lines whose processing raises, next to one that is not parsable and one that is
\* saved when the job folder can be written
FaultRecords ==
    { NotObjectLine, BadJsonLine,
      Item(TRUE, Key_a_png, "nomsg", <<>>),
      Item(TRUE, Key_a_png, "none", <<CandBadB64>>),
      Item(TRUE, Key_a_png, "none", <<CandImage, CandBadB64>>),
      Item(TRUE, Key_a_png, "none", <<CandImage>>),
      Item(TRUE, Key_c_v2_jpg, "none", <<CandImage>>),
      Item(FALSE, <<>>, "none", <<CandImage>>) }

NextFault ==
    \/ \E rec \in FaultRecords, writable \in BOOLEAN : ParseLine(rec, writable)
    \/ ParseEof
    \/ UnlinkTmp
    \/ UnlinkMarker
    \/ OuterExcept
    \/ FinallyTmp
    \/ FinallyMarker

\* the parse of one downloaded document whose records fail, to the end of the job
SpecFault == ParseStart /\ [][NextFault]_vars

\* ============================================================ submit_batch
Key_E_WEBP == <<"E",".","W","E","B","P">>
Key_n_txt == <<"n",".","t","x","t">>

\* the names input_images/ may hold when it is scanned
InputNames == {Key_a_png, Key_c_v2_jpg, Key_E_WEBP, Key_n_txt}

UploadExtensions == { <<".","j","p","g">>, <<".","j","p","e","g">>, <<".","p","n","g">>, <<".","w","e","b","p">> }

\* line 86: the entries whose lower-cased name ends like an image
ImageFiles(listing) == {f \in listing : \E e \in UploadExtensions : EndsWith(LowerStr(f), e)}

\* what the remote service does with the upload of one file: it becomes ACTIVE,
\* it ends in the state FAILED, files.upload raises, files.get raises, or the
\* file stays in the state PROCESSING for ever
Plans == {"active", "failed", "upload_raises", "get_raises", "stuck"}

\* what the operator types as the name of the job, stripped: nothing, a name, a
\* name that starts like the names submit_batch generates
UserJobNames == { <<>>, <<"m","y"," ","j","o","b">>, AUTO_PREFIX \o <<"x">> }

FILES_PREFIX == <<"f","i","l","e","s","/">>

\* the uri of the remote file made from a local file
RemoteUri(f) == FILES_PREFIX \o f

\* an upload task the executor has not started
NotStarted == [pc |-> "pending", state |-> "NONE", polls |-> 0, result |-> "none", uri |-> <<>>]

\* the state file_obj has when files.upload returns it
UploadedStates(p) ==
    CASE p = "active" -> {"PROCESSING", "ACTIVE"}
      [] p = "failed" -> {"PROCESSING", "FAILED"}
      [] OTHER -> {"PROCESSING"}

\* the state files.get reports at the poll after n polls
PolledStates(p, n) ==
    CASE p = "active" -> IF n + 1 < MaxPolls THEN {"PROCESSING", "ACTIVE"} ELSE {"ACTIVE"}
      [] p = "failed" -> IF n + 1 < MaxPolls THEN {"PROCESSING", "FAILED"} ELSE {"FAILED"}
      [] OTHER -> {"PROCESSING"}

\* the polls made, counted up to MaxPolls
Polled(n) == IF n < MaxPolls THEN n + 1 ELSE n

Running == {f \in DOMAIN upload : upload[f].pc \in {"wait", "sleep"}}

\* mutant: the request is keyed by the uri of the remote file
RequestLine_KeyedByUri(img_name, file_uri) == [custom_id |-> file_uri, file_uri |-> file_uri]

\* the request of one uploaded file (lines 133-149)
RequestLine(img_name, file_uri) == [custom_id |-> img_name, file_uri |-> file_uri]

\* batch_requests (lines 131-151): one request per entry of uploaded_files
BatchRequests(uploaded) ==
    [i \in DOMAIN uploaded |-> RequestLine(uploaded[i].name, uploaded[i].uri)]

\* mutant: the dict is assigned anew, uploaded_files = {img_file: file_obj}
Collected_Overwritten(uploaded, f, task) ==
    IF task.result = "ok" THEN <<[name |-> f, uri |-> task.uri]>> ELSE uploaded

\* mutant: the file is kept whatever its task returned
Collected_Always(uploaded, f, task) == Append(uploaded, [name |-> f, uri |-> task.uri])

\* uploaded_files after the result of one future has been handled (lines 112-118)
Collected(uploaded, f, task) ==
    IF task.result = "ok" THEN Append(uploaded, [name |-> f, uri |-> task.uri]) ELSE uploaded

TimestampStr == <<"2","0","2","6","0","1","0","1","_","1","2","0","0","0","0">>
NewJobName == <<"b","a","t","c","h","e","s","/","j","5">>

\* lines 78-98: the folder is scanned and every image is submitted to the executor
Scan ==
    /\ sb_pc = "scan"
    /\ image_files' = ImageFiles(input_dir)
    /\ IF ImageFiles(input_dir) = {}
       THEN sb_pc' = "done" /\ upload' = <<>>
       ELSE sb_pc' = "pool" /\ upload' = [f \in ImageFiles(input_dir) |-> NotStarted]
    /\ completed_count' = 0
    /\ UNCHANGED <<user_job_name, input_dir, plan, consumed, uploaded_files, jsonl, job>>
    /\ UNCHANGED <<vars_download, checkVars>>

\* upload_single_file, line 12: a worker of the pool takes the task and uploads
UploadCall(f) ==
    /\ sb_pc = "pool"
    /\ upload[f].pc = "pending"
    /\ Cardinality(Running) < max_workers
    /\ IF plan[f] = "upload_raises"
       THEN upload' = [upload EXCEPT ![f].pc = "returned", ![f].result = "exception"]
       ELSE \E st \in UploadedStates(plan[f]) :
               upload' = [upload EXCEPT ![f].pc = "wait", ![f].state = st, ![f].uri = RemoteUri(f)]
    /\ UNCHANGED <<sb_pc, user_job_name, input_dir, image_files, plan, consumed, completed_count, uploaded_files, jsonl, job>>
    /\ UNCHANGED <<vars_download, checkVars>>

\* lines 15-16: the state is PROCESSING, the task sleeps for a second
WaitSleep(f) ==
    /\ sb_pc = "pool"
    /\ upload[f].pc = "wait"
    /\ upload[f].state = "PROCESSING"
    /\ upload' = [upload EXCEPT ![f].pc = "sleep"]
    /\ UNCHANGED <<sb_pc, user_job_name, input_dir, image_files, plan, consumed, completed_count, uploaded_files, jsonl, job>>
    /\ UNCHANGED <<vars_download, checkVars>>

\* line 17: the task asks for the remote file again and tests its state at line 15
WaitPoll(f) ==
    /\ sb_pc = "pool"
    /\ upload[f].pc = "sleep"
    /\ IF plan[f] = "get_raises"
       THEN upload' = [upload EXCEPT ![f].pc = "returned", ![f].result = "exception"]
       ELSE \E st \in PolledStates(plan[f], upload[f].polls) :
               upload' = [upload EXCEPT ![f].pc = "wait", ![f].state = st, ![f].polls = Polled(@)]
    /\ UNCHANGED <<sb_pc, user_job_name, input_dir, image_files, plan, consumed, completed_count, uploaded_files, jsonl, job>>
    /\ UNCHANGED <<vars_download, checkVars>>

\* lines 19-22: the state is no longer PROCESSING, the task returns
WaitEnd(f) ==
    /\ sb_pc = "pool"
    /\ upload[f].pc = "wait"
    /\ upload[f].state # "PROCESSING"
    /\ upload' = [upload EXCEPT ![f].pc = "returned",
                                ![f].result = IF upload[f].state = "ACTIVE" THEN "ok" ELSE "failed_state"]
    /\ UNCHANGED <<sb_pc, user_job_name, input_dir, image_files, plan, consumed, completed_count, uploaded_files, jsonl, job>>
    /\ UNCHANGED <<vars_download, checkVars>>

\* lines 108-120: the loop over as_completed handles a finished future
Consume(f) ==
    /\ sb_pc = "pool"
    /\ upload[f].pc = "returned"
    /\ f \notin consumed
    /\ consumed' = consumed \cup {f}
    /\ completed_count' = completed_count + 1
    /\ uploaded_files' = Collected(uploaded_files, f, upload[f])
    /\ UNCHANGED <<sb_pc, user_job_name, input_dir, image_files, plan, upload, jsonl, job>>
    /\ UNCHANGED <<vars_download, checkVars>>

\* lines 120-124: every future has been handled, the pool is left
PoolExit ==
    /\ sb_pc = "pool"
    /\ consumed = image_files
    /\ sb_pc' = IF uploaded_files = <<>> THEN "done" ELSE "prepare"
    /\ UNCHANGED <<user_job_name, input_dir, image_files, plan, upload, consumed, completed_count, uploaded_files, jsonl, job>>
    /\ UNCHANGED <<vars_download, checkVars>>

\* lines 126-159: the requests are built and written to the request document
PrepareBatch ==
    /\ sb_pc = "prepare"
    /\ jsonl' = [exists |-> TRUE, lines |-> BatchRequests(uploaded_files)]
    /\ sb_pc' = "upload_jsonl"
    /\ UNCHANGED <<user_job_name, input_dir, image_files, plan, upload, consumed, completed_count, uploaded_files, job>>
    /\ UNCHANGED <<vars_download, checkVars>>

\* lines 161-166: the request document is uploaded
UploadJsonl ==
    /\ sb_pc = "upload_jsonl"
    /\ sb_pc' = "create_job"
    /\ UNCHANGED <<user_job_name, input_dir, image_files, plan, upload, consumed, completed_count, uploaded_files, jsonl, job>>
    /\ UNCHANGED <<vars_download, checkVars>>

\* the upload of line 163 raises: nothing catches it and the process ends
UploadJsonlFails ==
    /\ sb_pc = "upload_jsonl"
    /\ sb_pc' = "done"
    /\ UNCHANGED <<user_job_name, input_dir, image_files, plan, upload, consumed, completed_count, uploaded_files, jsonl, job>>
    /\ UNCHANGED <<vars_download, checkVars>>

\* lines 169-198: the name shown for the job and the folder of its details
JobDisplayName(typed) == IF typed # <<>> THEN typed ELSE AUTO_PREFIX \o TimestampStr

JobDir(typed, name) ==
    JOB_PREFIX \o Sanitize(IF typed # <<>> THEN JobDisplayName(typed) ELSE LastComponent(name))

\* lines 168-212: the job is created and its details are saved
CreateJob ==
    /\ sb_pc = "create_job"
    /\ job' = [created |-> TRUE, display_name |-> JobDisplayName(user_job_name),
               job_dir |-> JobDir(user_job_name, NewJobName)]
    /\ sb_pc' = "done"
    /\ UNCHANGED <<user_job_name, input_dir, image_files, plan, upload, consumed, completed_count, uploaded_files, jsonl>>
    /\ UNCHANGED <<vars_download, checkVars>>

\* client.batches.create raises: the handler of line 214 reports it
CreateJobFails ==
    /\ sb_pc = "create_job"
    /\ sb_pc' = "done"
    /\ UNCHANGED <<user_job_name, input_dir, image_files, plan, upload, consumed, completed_count, uploaded_files, jsonl, job>>
    /\ UNCHANGED <<vars_download, checkVars>>

\* submit_batch is started on a folder of at most MaxFiles entries
InitSubmit ==
    /\ DownloadInit
    /\ CheckIdle
    /\ sb_pc = "scan"
    /\ user_job_name \in UserJobNames
    /\ input_dir \in {S \in SUBSET InputNames : Cardinality(S) <= MaxFiles}
    /\ plan \in [ImageFiles(input_dir) -> Plans]
    /\ image_files = {}
    /\ upload = <<>>
    /\ consumed = {}
    /\ completed_count = 0
    /\ uploaded_files = <<>>
    /\ jsonl = NoJsonl
    /\ job = NoJob

NextSubmit ==
    \/ Scan
    \/ \E f \in InputNames : f \in DOMAIN upload /\ UploadCall(f)
    \/ \E f \in InputNames : f \in DOMAIN upload /\ WaitSleep(f)
    \/ \E f \in InputNames : f \in DOMAIN upload /\ WaitPoll(f)
    \/ \E f \in InputNames : f \in DOMAIN upload /\ WaitEnd(f)
    \/ \E f \in InputNames : f \in DOMAIN upload /\ Consume(f)
    \/ PoolExit
    \/ PrepareBatch
    \/ UploadJsonl
    \/ UploadJsonlFails
    \/ CreateJob
    \/ CreateJobFails

\* one run of submit_batch
SpecSubmit == InitSubmit /\ [][NextSubmit]_vars

\* the same run, in which the threads and the main thread keep taking steps
SpecSubmitLive == InitSubmit /\ [][NextSubmit]_vars /\ WF_vars(NextSubmit)

\* ============================================================== check_jobs
\* mutant: a paused job is not counted as active
active_states_NoPaused ==
    {"JOB_STATE_PENDING", "JOB_STATE_QUEUED", "JOB_STATE_RUNNING", "JOB_STATE_UPDATING",
     "JOB_STATE_CANCELLING"}

\* lines 40-47
active_states ==
    {"JOB_STATE_PENDING", "JOB_STATE_QUEUED", "JOB_STATE_RUNNING", "JOB_STATE_UPDATING",
     "JOB_STATE_PAUSED", "JOB_STATE_CANCELLING"}

\* the states the remote service reports
JobStates ==
    {"JOB_STATE_PENDING", "JOB_STATE_QUEUED", "JOB_STATE_RUNNING", "JOB_STATE_UPDATING",
     "JOB_STATE_PAUSED", "JOB_STATE_CANCELLING", "JOB_STATE_SUCCEEDED", "JOB_STATE_FAILED",
     "JOB_STATE_CANCELLED", "JOB_STATE_EXPIRED", "JOB_STATE_UNSPECIFIED"}

\* creation times: the second and the microsecond within one minute of one day (UTC)
CreateTimes == {[sec |-> 5, micro |-> 0], [sec |-> 5, micro |-> 500000], [sec |-> 10, micro |-> 0]}

\* n in decimal, padded with zeros to w digits
RECURSIVE Padded(_, _)
Padded(n, w) == IF w = 0 THEN <<>> ELSE Padded(n \div 10, w - 1) \o <<Digit[(n % 10) + 1]>>

\* str(create_time) from the seconds on: datetime prints the microseconds only when
\* they are not zero, then the offset
StrTime(t) ==
    Padded(t.sec, 2)
    \o (IF t.micro = 0 THEN <<>> ELSE <<".">> \o Padded(t.micro, 6))
    \o <<"+","0","0",":","0","0">>

\* the code point of a character of such a string
Ord(c) ==
    CASE c = "+" -> 43
      [] c = "." -> 46
      [] c = ":" -> 58
      [] OTHER -> 48 + (CHOOSE d \in 0..9 : Digit[d + 1] = c)

\* a < b as Python compares two strings
RECURSIVE StrLess(_, _)
StrLess(a, b) ==
    IF b = <<>> THEN FALSE
    ELSE IF a = <<>> THEN TRUE
    ELSE IF Head(a) # Head(b) THEN Ord(Head(a)) < Ord(Head(b))
    ELSE StrLess(Tail(a), Tail(b))

\* the sort key of line 79
SortKey(js, i) == StrTime(js[i].create_time)

\* a list sorted by descending key with one more element put in, behind the
\* elements whose key is not smaller (list.sort is stable, also with reverse=True)
InsertDesc(js, sorted, i) ==
    LET n == Cardinality({k \in DOMAIN sorted : ~StrLess(SortKey(js, sorted[k]), SortKey(js, i))})
    IN  SubSeq(sorted, 1, n) \o <<i>> \o SubSeq(sorted, n + 1, Len(sorted))

\* completed_jobs.sort(key=lambda x: str(x.create_time), reverse=True)
RECURSIVE SortDesc(_, _)
SortDesc(js, idxs) ==
    IF idxs = <<>> THEN <<>>
    ELSE InsertDesc(js, SortDesc(js, SubSeq(idxs, 1, Len(idxs) - 1)), idxs[Len(idxs)])

\* completed_jobs[:5]
FirstShown(idxs) == SubSeq(idxs, 1, IF Len(idxs) < HISTORY_SHOWN THEN Len(idxs) ELSE HISTORY_SHOWN)

\* lines 30-37: the jobs have been listed; with none, check_jobs returns
CheckList ==
    /\ cj_pc = "start"
    /\ cj_pc' = IF jobs = <<>> THEN "done" ELSE "partition"
    /\ UNCHANGED <<jobs, active_jobs, history_jobs, shown>>
    /\ UNCHANGED <<vars_download, submitVars>>

\* client.batches.list() raises: the handler of line 91 reports it
CheckListFails ==
    /\ cj_pc = "start"
    /\ cj_pc' = "failed"
    /\ UNCHANGED <<jobs, active_jobs, history_jobs, shown>>
    /\ UNCHANGED <<vars_download, submitVars>>

\* lines 39-52: the two lists and the summary
CheckPartition ==
    /\ cj_pc = "partition"
    /\ active_jobs' = SelectSeq([i \in DOMAIN jobs |-> i], LAMBDA i : jobs[i].state \in active_states)
    /\ history_jobs' = SelectSeq([i \in DOMAIN jobs |-> i], LAMBDA i : jobs[i].state \notin active_states)
    /\ cj_pc' = "report"
    /\ UNCHANGED <<jobs, shown>>
    /\ UNCHANGED <<vars_download, submitVars>>

\* lines 54-89: the active jobs are printed; the completed jobs are sorted and the
\* first five printed
CheckReport ==
    /\ cj_pc = "report"
    /\ history_jobs' = SortDesc(jobs, history_jobs)
    /\ shown' = FirstShown(SortDesc(jobs, history_jobs))
    /\ cj_pc' = "done"
    /\ UNCHANGED <<jobs, active_jobs>>
    /\ UNCHANGED <<vars_download, submitVars>>

\* check_jobs is started while the remote service lists at most MaxObserved jobs
InitCheck ==
    /\ DownloadInit
    /\ SubmitIdle
    /\ cj_pc = "start"
    /\ jobs \in SeqsUpTo([state : JobStates, create_time : CreateTimes], MaxObserved)
    /\ active_jobs = <<>>
    /\ history_jobs = <<>>
    /\ shown = <<>>

NextCheck ==
    \/ CheckList
    \/ CheckListFails
    \/ CheckPartition
    \/ CheckReport

\* one run of check_jobs
SpecCheck == InitCheck /\ [][NextCheck]_vars

\* records whose keys are names submit_batch accepts, one with each kind of
\* extension the skip rule tests or not, and a record that is quarantined
RerunRecords ==
    { Item(TRUE, Key_a_png, "none", <<CandImage>>),
      Item(TRUE, Key_c_v2_jpg, "none", <<CandImage>>),
      Item(TRUE, Key_E_WEBP, "none", <<CandImage>>),
      Item(TRUE, Key_a_png, "msg", <<>>) }

NextRerun ==
    \/ \E rec \in RerunRecords : ParseLine(rec, TRUE)
    \/ ParseEof
    \/ UnlinkTmp
    \/ UnlinkMarker
    \/ FinallyTmp
    \/ FinallyMarker
    \/ Start
    \/ RecoverCheck
    \/ ListJobs
    \/ JobBegin

\* a run that parses the document of the job named "my job" to its end, and the
\* runs after it up to the skip test of each of their jobs
SpecRerun == ParseStart /\ [][NextRerun]_vars

\* ================================================================ claims
\* ---- helpers of the statements
PastRecovery == pc \notin (NotRunning \cup RecoveryPcs)

StaleTmp(p) == tmpFiles[p].exists /\ tmpFiles[p].stale

OwnTmp(p) == tmpFiles[p].exists /\ ~tmpFiles[p].stale

\* a line holding a JSON object has just been processed
ItemDone == pc = "parse" /\ line_num > 0 /\ lastRec.kind = "item"

\* the correlation key of that line: its custom_id, or unknown_<index of the line>
LastKey == IF lastRec.has_id THEN lastRec.id ELSE UNKNOWN_PREFIX \o Dec(line_num - 1)

Tree == dirs[CurDir].tree

IsQuarantinePath(p) == StartsWith(p, UNPROCESSED_DIR)

\* the key with _c<k> inserted before its extension
Suffixed(key, k) == SplitExt(key)[1] \o <<"_", "c">> \o Dec(k) \o SplitExt(key)[2]

LogLinesOf(k) == {i \in DOMAIN log : log[i].cand = k}

\* a file directly in the folder whose name ends in .jpg, .jpeg or .png, in any case
RecognizedImage(p) ==
    /\ \A i \in DOMAIN p : p[i] # "/"
    /\ \E e \in {<<".","j","p","g">>, <<".","j","p","e","g">>, <<".","p","n","g">>} : EndsWith(LowerStr(p), e)

HasRecognizedImage(tree) == \E p \in FilePaths(tree) : RecognizedImage(p)

\* C1: once the startup recovery of a run is over (so before any download of the
\* run), the temp file the marker named at startup is gone and so is the marker
\* the run found; when the named file did not exist the recovery only reports it.
C1_StartupRecovery ==
    PastRecovery =>
        /\ startNamed \in TmpNames => ~StaleTmp(startNamed)
        /\ ~(marker.exists /\ marker.stale)
        /\ (pc = "list" /\ startNamed \in TmpNames /\ ~startExisted) =>
               log = <<LogLine("Previous run's temp file was already deleted (clean exit).", 0)>>
        /\ (pc = "list" /\ startNamed \in TmpNames /\ startExisted) =>
               log = <<LogLine("Removed leftover temp file from previous run", 0)>>

\* C1 witness: a run that found a marker naming an existing temp file is about to
\* create the temp file of its first download
C1_Witness == pc = "mktemp" /\ startNamed \in TmpNames /\ startExisted

\* C2 (as claimed): once the startup recovery of a run is over, no temp file left
\* by an earlier run remains on disk.
C2_NoOrphanAfterRecovery == PastRecovery => \A p \in TmpNames : ~StaleTmp(p)

\* C3: in a run that is not killed, whenever the processing of a job has ended (the
\* loop is at its next job, or the run is over) neither a temp file of this run
\* nor the marker exists.
C3_CleanAfterJob ==
    pc \in {"job", "done"} => (~marker.exists /\ \A p \in TmpNames : ~OwnTmp(p))

\* C3 witness: the first job of a run ended by an exception while the document was
\* read, and the loop is at the second job
C3_Witness == pc = "job" /\ jobIdx = 2 /\ outcome = "read_failed"

\* C4: when the transfer of a job fails, the temp file and the marker are removed
\* before the error is reported, no line of the job is parsed and nothing is
\* written for it, and no job is transferred twice in a run.
C4_DownloadFailure ==
    /\ \A i \in DOMAIN Jobs : attempts[i] <= 1
    /\ outcome = "download_failed" =>
          /\ pc \in {"except_unlink_tmp", "except_unlink_marker", "outer_except",
                     "finally_tmp", "finally_marker", "job", "done"}
          /\ pc \notin {"except_unlink_tmp", "except_unlink_marker"} =>
                 (~marker.exists /\ ~tmpFiles[tmp_path].exists)
          /\ line_num = 0 /\ lastRec = BlankLine /\ written = {}

\* C4 witness: the error of a failed transfer has just been reported
C4_Witness ==
    /\ pc = "finally_tmp"
    /\ outcome = "download_failed"
    /\ log = <<LogLine("Error downloading/processing file", 0)>>

\* C5: the transfer starts, and a chunk is written to the temp file, only while
\* the marker exists and holds the path of that temp file.
C5_MarkerBeforeTransfer ==
    [][(pc' = "stream" \/ total_bytes' > total_bytes) =>
           (marker.exists /\ tmp_path \in TmpNames /\ marker.content = tmp_path)]_vars

\* C5 witness: chunks have been written to the temp file the marker names
C5_Witness == pc = "stream" /\ total_bytes > 0 /\ marker.exists /\ marker.content = tmp_path

C7_ErrorRecordQuarantined ==
    (ItemDone /\ lastRec.err = "msg" /\ lastRec.has_id /\ IsFile(inputFiles, lastRec.id)) =>
        /\ IsFile(Tree, UNPROCESSED_DIR \o lastRec.id)
        /\ Content(Tree, UNPROCESSED_DIR \o lastRec.id) = Content(inputFiles, lastRec.id)
        /\ written = {UNPROCESSED_DIR \o lastRec.id}

\* C8 (as claimed): a record without a record-level error that saved the image of
\* at least one candidate gets no copy under unprocessed/.
C8_QuarantineOnlyIfNoImage ==
    (ItemDone /\ lastRec.err = "none" /\ \E p \in written : ~IsQuarantinePath(p)) =>
        \A p \in written : ~IsQuarantinePath(p)

\* C9 (as claimed): after a record with N > 1 candidates, every candidate k with
\* image data is saved as the key suffixed _c<k>, and every candidate without image
\* data (an empty parts list included) has no file and exactly one log line.
C9_EveryCandidateHandled ==
    (ItemDone /\ lastRec.err = "none" /\ Len(lastRec.cands) > 1) =>
        \A k \in DOMAIN lastRec.cands :
            IF HasImageData(lastRec.cands[k])
            THEN /\ Suffixed(LastKey, k) \in written
                 /\ IsFile(Tree, Suffixed(LastKey, k))
                 /\ Content(Tree, Suffixed(LastKey, k)) = B64Decode(FirstInline(lastRec.cands[k])).bytes
            ELSE /\ Suffixed(LastKey, k) \notin written
                 /\ Cardinality(LogLinesOf(k)) = 1

\* C10: after a record without a record-level error that has exactly one candidate,
\* which holds image data, the record has written exactly one file, named by the
\* correlation key, holding the decoded bytes.
C10_SingleCandidateName ==
    (ItemDone /\ lastRec.err = "none" /\ Len(lastRec.cands) = 1 /\ HasImageData(lastRec.cands[1])) =>
        /\ written = {LastKey}
        /\ IsFile(Tree, LastKey)
        /\ Content(Tree, LastKey) = B64Decode(FirstInline(lastRec.cands[1])).bytes

\* C10 witness: the record of a.png with one image candidate has been processed
\* and a.png is in the job folder
C10_Witness ==
    /\ ItemDone
    /\ lastRec = Item(TRUE, Key_a_png, "none", <<CandImage>>)
    /\ IsFile(Tree, Key_a_png)

\* ---- helpers of the statements
NoIdItem == Item(FALSE, <<>>, "none", <<CandImage>>)

\* the reason the diagnostic fields present in a record call for
ClaimedReason(rec) ==
    LET hasCand == rec.cands # <<>>
        parts == (IF hasCand /\ rec.fr # FrAbsent
                  THEN <<"finish_reason=" \o FinishReasonName(rec.fr)>> ELSE <<>>)
                 \o (IF hasCand /\ rec.safety THEN <<"safety_ratings=[...]">> ELSE <<>>)
                 \o (IF rec.pf THEN <<"prompt_feedback={...}">> ELSE <<>>)
    IN  IF parts = <<>> THEN <<"no reason in response">> ELSE parts

\* C11 (as claimed): after a record with several candidates of which one has no
\* image payload, every candidate that carries image data has been saved under the
\* key suffixed with its position.
C11_OtherCandidatesProcessed ==
    (/\ ItemDone /\ lastRec.err = "none" /\ Len(lastRec.cands) > 1
     /\ \E j \in DOMAIN lastRec.cands : ~HasImageData(lastRec.cands[j])) =>
        \A k \in DOMAIN lastRec.cands :
            HasImageData(lastRec.cands[k]) =>
                (Suffixed(LastKey, k) \in written /\ IsFile(Tree, Suffixed(LastKey, k)))

\* C12: a line that is not parsable as JSON never ends the reading of the document;
\* once it has been processed the loop is at the next line, the line has written
\* nothing in the job folder and exactly the parse failure has been printed.
C12_BadJsonSkipped ==
    /\ aborted_by.kind # "badjson"
    /\ (line_num > 0 /\ lastRec.kind = "badjson") =>
           (pc = "parse" /\ written = {} /\ log = <<LogLine("Failed to parse JSON line.", 0)>>)

\* C12 witness: the first line was not parsable, and the second line has been
\* processed and has saved a.png
C12_Witness ==
    /\ pc = "parse" /\ line_num = 2 /\ bad_json_lines = {0}
    /\ lastRec = Item(TRUE, Key_a_png, "none", <<CandImage>>)
    /\ written = {Key_a_png}

\* C13 (as claimed): no line that parsed as JSON ends the reading of the document
\* by the exception its processing raised, and a job whose document was opened
\* ends with its "Done" report.
C13_RecordFailureIsolated ==
    /\ aborted_by.kind \notin {"notobject", "item"}
    /\ pc \in {"finally_tmp", "finally_marker"} => outcome = "done"

\* C14 (as claimed): a run that has started on its list of succeeded jobs ends only
\* after the last job of the list.
C14_JobFailureIsolated ==
    [][(pc \notin (NotRunning \cup RecoveryPcs \cup {"list"}) /\ pc' = "done") =>
           jobIdx = Len(completed_jobs)]_vars

\* C15 (as claimed): after a record without a record-level error whose candidate
\* list is empty or whose first candidate has an empty parts list, one line has been
\* printed, with the reason the fields present in the response call for; the input
\* file, if present, has been copied to unprocessed/<key>; and nothing else has
\* been written.
C15_SoftFailure ==
    (/\ ItemDone /\ lastRec.err = "none"
     /\ (lastRec.cands = <<>> \/ lastRec.cands[1] = <<>>)) =>
        /\ Len(log) = 1
        /\ log[1].reason = ClaimedReason(lastRec)
        /\ IsFile(inputFiles, LastKey) =>
               /\ IsFile(Tree, UNPROCESSED_DIR \o LastKey)
               /\ Content(Tree, UNPROCESSED_DIR \o LastKey) = Content(inputFiles, LastKey)
        /\ \A p \in written : IsQuarantinePath(p)

\* C16: a record without custom_id does not end the reading of the document; its
\* image is saved under unknown_<zero-based index of the line>, it gets no copy under
\* unprocessed/, and the keys synthesized for two different lines differ.
C16_SynthesizedKey ==
    /\ aborted_by = BlankLine
    /\ (ItemDone /\ ~lastRec.has_id) =>
           /\ \A p \in written : ~IsQuarantinePath(p)
           /\ (lastRec.err = "none" /\ Len(lastRec.cands) = 1 /\ HasImageData(lastRec.cands[1])) =>
                  written = {UNKNOWN_PREFIX \o Dec(line_num - 1)}
    /\ \A i, j \in 0..MaxKeyIndex :
           i # j => CustomId(NoIdItem, i) # CustomId(NoIdItem, j)

\* C16 witness: two lines without custom_id have been processed, and the job folder
\* holds unknown_0 and unknown_1
C16_Witness ==
    /\ pc = "parse" /\ line_num = 2 /\ ~lastRec.has_id
    /\ IsFile(Tree, UNKNOWN_PREFIX \o <<"0">>)
    /\ IsFile(Tree, UNKNOWN_PREFIX \o <<"1">>)

\* ---- helpers of the statements
PoolLeft == sb_pc \in {"prepare", "upload_jsonl", "create_job"} \/ (sb_pc = "done" /\ image_files # {})

ReachedActive == {f \in image_files : upload[f].state = "ACTIVE"}

UploadedNames == {uploaded_files[i].name : i \in DOMAIN uploaded_files}

LineIds == {jsonl.lines[i].custom_id : i \in DOMAIN jsonl.lines}

\* C17: once submit_batch has left the pool, the task of every image has returned,
\* whatever the tasks of the other images did, and uploaded_files holds exactly the
\* images whose remote file reached ACTIVE; the request document, when written,
\* names exactly those; and when no file reached ACTIVE no request document is
\* written and no job is created.
C17_UploadFailureIsolation ==
    /\ PoolLeft =>
           /\ \A f \in image_files : upload[f].pc = "returned"
           /\ \A f \in image_files : plan[f] = "active" => f \in UploadedNames
           /\ UploadedNames = ReachedActive
    /\ jsonl.exists => LineIds = ReachedActive
    /\ job.created => jsonl.exists
    /\ (sb_pc # "scan" /\ ReachedActive = {}) => (~jsonl.exists /\ ~job.created)

\* C17 witness: the job has been created from a batch of one image, after the
\* upload of another image raised
C17_Witness ==
    /\ sb_pc = "done" /\ job.created /\ Len(jsonl.lines) = 1
    /\ \E f \in image_files : upload[f].result = "exception"

\* C18: the request document has one line per image whose upload reached ACTIVE;
\* the custom_id of a line is the name of an image, the line refers to the remote
\* file made from that image, and no two lines have the same custom_id.
C18_RequestLines ==
    jsonl.exists =>
        /\ Len(jsonl.lines) = Cardinality(ReachedActive)
        /\ \A i \in DOMAIN jsonl.lines :
               /\ jsonl.lines[i].custom_id \in ReachedActive
               /\ jsonl.lines[i].file_uri = RemoteUri(jsonl.lines[i].custom_id)
        /\ \A i, j \in DOMAIN jsonl.lines :
               i # j => jsonl.lines[i].custom_id # jsonl.lines[j].custom_id

\* C18 witness: a request document of two lines has been written
C18_Witness == jsonl.exists /\ Len(jsonl.lines) = 2

\* C20 (as claimed): every upload task that waits for its file to be ready
\* eventually returns.
C20_UploadReturns ==
    \A f \in InputNames :
        (f \in DOMAIN upload /\ upload[f].pc = "wait")
            ~> (f \in DOMAIN upload /\ upload[f].pc = "returned")

\* ---- helpers of the statements
\* a creation time in microseconds
Micros(t) == t.sec * 1000000 + t.micro

SeqRange(q) == {q[i] : i \in DOMAIN q}

\* C19: after the partition every listed job is in exactly one of the two lists, in
\* the active list exactly when its state is pending, queued, running, updating,
\* paused or cancelling; and the completed jobs are printed from the latest
\* creation time to the earliest, jobs of equal creation time in the order in which
\* they were listed.
C19_PartitionAndOrder ==
    /\ cj_pc \in {"report", "done"} /\ jobs # <<>> =>
           /\ SeqRange(active_jobs) \cup SeqRange(history_jobs) = DOMAIN jobs
           /\ SeqRange(active_jobs) \cap SeqRange(history_jobs) = {}
           /\ Len(active_jobs) + Len(history_jobs) = Len(jobs)
           /\ \A i \in DOMAIN jobs :
                  i \in SeqRange(active_jobs) <=>
                      jobs[i].state \in {"JOB_STATE_PENDING", "JOB_STATE_QUEUED", "JOB_STATE_RUNNING",
                                         "JOB_STATE_UPDATING", "JOB_STATE_PAUSED", "JOB_STATE_CANCELLING"}
    /\ cj_pc = "done" /\ jobs # <<>> =>
           /\ SeqRange(shown) \subseteq SeqRange(history_jobs)
           /\ Len(shown) = (IF Len(history_jobs) < 5 THEN Len(history_jobs) ELSE 5)
           /\ \A a, b \in DOMAIN shown :
                  a < b =>
                      \/ Micros(jobs[shown[a]].create_time) > Micros(jobs[shown[b]].create_time)
                      \/ /\ Micros(jobs[shown[a]].create_time) = Micros(jobs[shown[b]].create_time)
                         /\ shown[a] < shown[b]

\* C19 witness: two completed jobs were listed, the second created half a second
\* after the first, and the second has been printed first
C19_Witness ==
    /\ cj_pc = "done" /\ shown = <<2, 1>>
    /\ jobs[1].create_time = [sec |-> 5, micro |-> 0]
    /\ jobs[2].create_time = [sec |-> 5, micro |-> 500000]

C22_SingleSlotMarker ==
    /\ Cardinality({p \in TmpNames : OwnTmp(p)}) <= 1
    /\ (pc \notin NotRunning /\ marker.exists /\ ~marker.stale) =>
           (tmp_path # None /\ marker.content = tmp_path)

\* C23: a download is started only for jobs observed in the state
\* JOB_STATE_SUCCEEDED, when every job is scanned and when the operator names a
\* job by its full id, its short id or its display name: the jobs of a run are all
\* succeeded jobs, and for a job in any other state no transfer is attempted and
\* its folder under generated_images/ is left as it was.
C23_OnlySucceededDownloaded ==
    /\ \A k \in DOMAIN completed_jobs : Jobs[completed_jobs[k]].state = JOB_STATE_SUCCEEDED
    /\ \A i \in DOMAIN Jobs :
           Jobs[i].state # JOB_STATE_SUCCEEDED =>
               /\ attempts[i] = 0
               /\ dirs[JobOutputDir(Jobs[i])] = InitialDirs[JobOutputDir(Jobs[i])]

\* the operator named the failed job by its display name and the run ended
C23_Witness ==
    /\ pc = "done"
    /\ target_input = Jobs[5].display_name
    /\ Jobs[5].state = "JOB_STATE_FAILED"
    /\ completed_jobs = <<>>

\* the job submit_batch created, as client.batches.list() reports it to
\* download_images
CreatedJob == [name |-> NewJobName, display_name |-> job.display_name,
               state |-> JOB_STATE_SUCCEEDED, dest |-> "files/r5"]

\* C24 (as claimed): for every job submit_batch creates, with a name typed by the
\* operator or with the generated name, the folder in which submit_batch saves
\* submission_details.json is the folder download_images computes as the output
\* folder of that job.
C24_SameJobFolder ==
    job.created => job.job_dir = JobOutputDir(CreatedJob)

\* C25 (as claimed): two distinct succeeded jobs never share an output folder, so
\* the images saved for one job never make another job be skipped as already
\* processed: when a job is skipped, no other job for which this run has started
\* a download writes to the folder of the skipped job.
C25_NoSharedFolder ==
    [][(pc = "job" /\ outcome' = "skipped") =>
           \A i \in DOMAIN Jobs :
               (i # completed_jobs[jobIdx] /\ attempts[i] > 0) => JobOutputDir(Jobs[i]) # CurDir]_vars

\* the files of a job folder that the parse saved as images
SavedFiles(tree) == {p \in FilePaths(tree) : ~IsQuarantinePath(p) /\ p # SUBMISSION_DETAILS}

\* C26 (as claimed): re-run safety.  Every job is parsed to its end and its count
\* of saved images reported; when a later run comes to a job, it skips the job
\* exactly when an image was saved for it, whatever the accepted extension of the
\* saved key, and it does not skip a job that only has quarantined files.
C26_RerunSkips ==
    [][(pc = "job" /\ (pc' # "job" \/ jobIdx' # jobIdx)) =>
           (outcome' = "skipped" <=> SavedFiles(Tree) # {})]_vars

\* the key a path of the quarantine folder stands for
QuarantinedKey(p) == SubSeq(p, Len(UNPROCESSED_DIR) + 1, Len(p))

\* C27: the parse never changes the input root.  After any sequence of records
\* every file of input_images/ is there with its content; what the parse writes
\* is in the folder of the job only, and every file of the quarantine folder is a
\* copy of the input of the same name.
C27_InputRootUntouched ==
    /\ inputFiles = InputTree
    /\ \A d \in DOMAIN dirs : d # CurDir => dirs[d] = InitialDirs[d]
    /\ \A p \in FilePaths(Tree) :
           IsQuarantinePath(p) =>
               /\ IsFile(inputFiles, QuarantinedKey(p))
               /\ Content(Tree, p) = Content(inputFiles, QuarantinedKey(p))

\* the input a.png was quarantined by one line and an image saved by another
C27_Witness ==
    /\ pc = "parse"
    /\ line_num = 2
    /\ IsFile(Tree, UnprocessedPath(Key_a_png))
    /\ IsFile(Tree, Key_a_png)
    /\ IsFile(inputFiles, Key_a_png)

\* the files whose upload the remote service lets become ACTIVE
BecomeActive == {f \in image_files : plan[f] = "active"}

\* C28: the outcome of the concurrent uploads does not depend on the order in
\* which they complete.  Whatever the interleaving, when the pool is left the
\* request builder is handed exactly one (name, remote file) pair for each file
\* whose upload became ACTIVE, every submitted file was counted once in the
\* progress count, and the count has reached the number of input files.
C28_OrderIndependent ==
    /\ sb_pc = "pool" => completed_count = Cardinality(consumed)
    /\ PoolLeft =>
           /\ SeqRange(uploaded_files) = {[name |-> f, uri |-> RemoteUri(f)] : f \in BecomeActive}
           /\ Len(uploaded_files) = Cardinality(BecomeActive)
           /\ completed_count = Cardinality(image_files)

\* two uploads became ACTIVE and c.v2.jpg completed before a.png
C28_Witness ==
    /\ PoolLeft
    /\ Len(uploaded_files) = 2
    /\ uploaded_files[1].name = Key_c_v2_jpg
    /\ uploaded_files[2].name = Key_a_png
    /\ completed_count = 2

====
